---------------------------- MODULE Spec2Model ----------------------------
(***************************************************************************)
(* pyxem/generators/library_generator.py as a state machine.               *)
(*                                                                         *)
(* DiffractionLibraryGenerator.get_diffraction_library: the loop over the  *)
(* phases of a structure library and over the orientations of each phase,  *)
(* the in-place rotation of the phase's structure, the call of the         *)
(* external simulator and the construction of the diffraction library.     *)
(* VectorLibraryGenerator.get_vector_library: the loop over the phases and *)
(* the enumeration of all index pairs of the reciprocal lattice points.    *)
(*                                                                         *)
(* Quantities: angles are integers in degrees, radians are kept as integer *)
(* multiples of pi/180, calibrated coordinates are integers in half pixels *)
(* (so that rounding has ties), intensities are integers whose sums of     *)
(* squares are perfect squares (so that the Euclidean norm is exact).      *)
(***************************************************************************)
EXTENDS Integers, Sequences, FiniteSets, TLC

VARIABLES
    struct_lib,     \* input.struct_lib: phase key k (1..P, in key order) -> [structure, orientations]
    libAttrs,       \* attributes of the StructureLibrary object passed in
    mapAttrs,       \* attributes of the object input.struct_lib, or NoAttrs
    args,           \* calibration, reciprocal_radius, half_shape, with_direct_beam
    heap,           \* the diffpy structure objects: structure id -> [lattice, atoms]
    pc,             \* position in the running method
    ki,             \* number of phase keys the outer loop has taken
    oi,             \* number of orientations the inner loop has taken
    cell,           \* the locals a, b, c, alpha, beta, gamma
    phase_diffraction_library,
    diffraction_library,
    vector_library,
    sphere,         \* what get_points_in_sphere returned, per phase key
    ret,            \* the value the method returned, or NoReturn
    err,            \* the exception that left the method, or None
    simLog,         \* history: the calls of calculate_ed_data, in order
    det,            \* TRUE: the simulator is a function of its inputs
    memo,           \* the deterministic simulator's answers so far
    calls,          \* number of calls of get_diffraction_library started
    first           \* what the first call returned (two successive calls)

vars == <<struct_lib, libAttrs, mapAttrs, args, heap, pc, ki, oi, cell,
          phase_diffraction_library, diffraction_library, vector_library,
          sphere, ret, err, simLog, det, memo, calls, first>>

-----------------------------------------------------------------------------
(* Bounds of the model *)

MaxPhases == 2

\* orientations in the whole structure library (all phases together)
MaxOrients == 3

\* lattice points get_points_in_sphere may return for a phase
MaxPoints == 4

-----------------------------------------------------------------------------
(* Values *)

\* no exception
None == "None"

\* the method has not returned a value
NoReturn == [returned |-> FALSE]

\* an object without the attributes `indentifiers' and `structures'
NoAttrs == [present |-> FALSE]

EmptyDict == <<>>

\* a dict that keeps the value a key was first given
DictSet_KeepFirst(d, k, v) ==
    [x \in (DOMAIN d) \cup {k} |-> IF x \in DOMAIN d THEN d[x] ELSE v]

\* d[k] = v on a Python dict
DictSet(d, k, v) == [x \in (DOMAIN d) \cup {k} |-> IF x = k THEN v ELSE d[x]]

\* Euler triples (Z, X, Z) in degrees
Orients == {<<0, 0, 0>>, <<10, 0, 0>>}

RECURSIVE SeqsUpTo(_)
SeqsUpTo(n) ==
    IF n = 0 THEN {<<>>}
    ELSE LET S == SeqsUpTo(n - 1)
         IN  S \cup {Append(s, o) : s \in {t \in S : Len(t) = n - 1}, o \in Orients}

\* orientation lists of p phases with at most `budget' orientations in all
RECURSIVE OrientLists(_, _)
OrientLists(p, budget) ==
    IF p = 0 THEN {<<>>}
    ELSE UNION {{Append(l, s) : l \in OrientLists(p - 1, budget - Len(s))}
                  : s \in SeqsUpTo(budget)}

\* the cell parameters a, b, c, alpha, beta, gamma of structure s
CellOf(s) == IF s % 2 = 1 THEN <<4, 4, 4, 90, 90, 90>>
                          ELSE <<3, 4, 5, 90, 90, 120>>

\* the identity base rotation, in the form euler2mat returns
IdentityRot == <<0, 0, 0>>

\* structure s as the caller built it: its lattice not rotated; its atoms
\* keep their Cartesian positions whatever lattice the structure is placed in
InitialStructure(s) ==
    [lattice |-> [cell |-> CellOf(s), baserot |-> IdentityRot], atoms |-> s]

StructLibs ==
    UNION {{[k \in 1..p |-> [structure |-> k, orientations |-> l[k]]]
              : l \in OrientLists(p, MaxOrients)} : p \in 0..MaxPhases}

LibAttrs == [present |-> TRUE, identifiers |-> "library.identifiers",
             structures |-> "library.structures"]

MapAttrs == {NoAttrs, LibAttrs,
             [present |-> TRUE, identifiers |-> "struct_lib.indentifiers",
              structures |-> "struct_lib.structures"]}

ArgSets == {[calibration |-> c, reciprocal_radius |-> 1,
             half_shape |-> <<72, 72>>, with_direct_beam |-> TRUE] : c \in {2}}

-----------------------------------------------------------------------------
(* The external simulator's results *)

\* calculate_ed_data raises instead of returning
Fail == [raises |-> "SimulationFailure"]

NoPeaks == [intensities |-> <<>>, calibrated_coordinates |-> <<>>,
            calibration |-> 1]

ZeroPeak == [intensities |-> <<0>>,
             calibrated_coordinates |-> <<<<0, 0, 0>>>>,
             calibration |-> 1]

TwoPeaks == [intensities |-> <<3, 4>>,
             calibrated_coordinates |-> <<<<1, 0, 0>>, <<-3, 5, 2>>>>,
             calibration |-> 1]

SimData == {NoPeaks, ZeroPeak, TwoPeaks}

-----------------------------------------------------------------------------
(* Pure steps of the loop body *)

\* np.deg2rad: degrees d become d * pi/180, kept as the multiple of pi/180
\* together with the denominator
deg2rad(orientation) ==
    [i \in 1..3 |-> [piNum |-> orientation[i], piDen |-> 180]]

\* the angle of a radian value in 0 .. 2 pi, as a multiple of pi/piDen
Turn(r) == r.piNum % (2 * r.piDen)

\* euler2mat(ai, aj, ak, 'rzxz'): Rz(ai) Rx(aj) Rz(ak).  The matrix is kept
\* in a canonical form: with no tilt about x the two z rotations add up.
euler2mat(ai, aj, ak) ==
    IF Turn(aj) = 0 THEN <<(Turn(ai) + Turn(ak)) % (2 * ai.piDen), 0, 0>>
    ELSE <<Turn(ai), Turn(aj), Turn(ak)>>

\* diffpy.structure.lattice.Lattice(a, b, c, alpha, beta, gamma, baserot=matrix)
Lattice(a, b, c, alpha, beta, gamma, baserot) ==
    [cell |-> <<a, b, c, alpha, beta, gamma>>, baserot |-> baserot]

\* structure.placeInLattice(latt_rot): the structure's lattice is replaced,
\* the Cartesian positions of its atoms stay
placeInLattice(structure, latt_rot) == [structure EXCEPT !.lattice = latt_rot]

\* the rotation applied on top of the rotation the lattice already has
RotatedStructure_Accumulated(structure, c, orientation) ==
    LET _orientation == deg2rad(orientation)
        matrix == euler2mat(_orientation[1], _orientation[2], _orientation[3])
        before == structure.lattice.baserot
        product == [i \in 1..3 |-> (before[i] + matrix[i]) % 360]
        latt_rot == Lattice(c[1], c[2], c[3], c[4], c[5], c[6], product)
    IN  placeInLattice(structure, latt_rot)

\* lines 100-108: the structure as the simulator sees it for `orientation'
RotatedStructure(structure, c, orientation) ==
    LET _orientation == deg2rad(orientation)
        matrix == euler2mat(_orientation[1], _orientation[2], _orientation[3])
        latt_rot == Lattice(c[1], c[2], c[3], c[4], c[5], c[6], matrix)
    IN  placeInLattice(structure, latt_rot)

\* np.rint of h/2 (round half to even), h in half units
Rint(h) ==
    IF h % 2 = 0 THEN h \div 2
    ELSE LET f == (h - 1) \div 2 IN IF f % 2 = 0 THEN f ELSE f + 1

\* np.rint(data.calibrated_coordinates[:, :2] + half_shape).astype(int)
PixelCoordinates(data, half_shape) ==
    [i \in 1..Len(data.calibrated_coordinates) |->
        <<Rint(data.calibrated_coordinates[i][1] + 2 * half_shape[1]),
          Rint(data.calibrated_coordinates[i][2] + 2 * half_shape[2])>>]

\* np.dot(u, v)
RECURSIVE Dot(_, _)
Dot(u, v) == IF Len(u) = 0 THEN 0 ELSE u[1] * v[1] + Dot(Tail(u), Tail(v))

\* np.sqrt, exact on the perfect squares the model's intensities give
Sqrt(n) == CHOOSE r \in 0..n : r * r = n

\* the dot product without the square root
PatternNorm_NoSqrt(pattern_intensities) ==
    Dot(pattern_intensities, pattern_intensities)

\* line 125: np.sqrt(np.dot(pattern_intensities, pattern_intensities))
PatternNorm(pattern_intensities) ==
    Sqrt(Dot(pattern_intensities, pattern_intensities))

\* lines 116-126: the record stored for one simulation
SimRecord(data, half_shape) ==
    [Sim |-> data, intensities |-> data.intensities,
     pixel_coords |-> PixelCoordinates(data, half_shape),
     pattern_norm |-> PatternNorm(data.intensities)]

\* every simulation is kept
HasPeaks_Always(pattern_intensities) == TRUE

\* a simulation is kept when it has more than one peak
HasPeaks_MoreThanOne(pattern_intensities) == Len(pattern_intensities) > 1

\* line 121: the simulation is kept when it has peaks
HasPeaks(pattern_intensities) == Len(pattern_intensities) > 0

-----------------------------------------------------------------------------
(* Initial states *)

InitInput ==
    /\ struct_lib \in StructLibs
    /\ libAttrs = LibAttrs
    /\ mapAttrs \in MapAttrs
    /\ args \in ArgSets
    /\ heap = [s \in 1..MaxPhases |-> InitialStructure(s)]

InitLocals ==
    /\ ki = 0
    /\ oi = 0
    /\ cell = <<>>
    /\ phase_diffraction_library = EmptyDict
    /\ diffraction_library = EmptyDict
    /\ vector_library = EmptyDict
    /\ sphere = EmptyDict
    /\ ret = NoReturn
    /\ err = None
    /\ simLog = <<>>
    /\ memo = EmptyDict
    /\ first = NoReturn

\* get_diffraction_library is called once; the simulator is any object
Init ==
    /\ InitInput
    /\ InitLocals
    /\ pc = "phase"
    /\ det = FALSE
    /\ calls = 1

-----------------------------------------------------------------------------
(* get_diffraction_library *)

NPhases == Len(struct_lib)

\* lines 90-99: the outer loop takes the next key; a phase with no
\* orientation leaves the inner loop at once
NextPhase ==
    /\ pc = "phase"
    /\ ki < NPhases
    /\ LET key == ki + 1
           structure == heap[struct_lib[key].structure]
       IN  /\ ki' = key
           /\ phase_diffraction_library' = EmptyDict
           /\ cell' = structure.lattice.cell
           /\ oi' = 0
           /\ pc' = IF Len(struct_lib[key].orientations) = 0
                    THEN "phase" ELSE "orient"
    /\ UNCHANGED <<struct_lib, libAttrs, mapAttrs, args, heap,
                   diffraction_library, vector_library, sphere, ret, err,
                   simLog, det, memo, calls, first>>

\* the simulator's answers for a structure state and arguments
Answers(question) ==
    IF det /\ question \in DOMAIN memo THEN {memo[question]}
    ELSE SimData \cup {Fail}

\* lines 99-127, calculate_ed_data returns: one turn of the inner loop;
\* after the last orientation the outer loop goes on
Orientation ==
    /\ pc = "orient"
    /\ oi < Len(struct_lib[ki].orientations)
    /\ LET key == ki
           sid == struct_lib[key].structure
           orientation == struct_lib[key].orientations[oi + 1]
           structure == RotatedStructure(heap[sid], cell, orientation)
           question == [structure |-> structure,
                        reciprocal_radius |-> args.reciprocal_radius,
                        with_direct_beam |-> args.with_direct_beam]
       IN  \E answer \in Answers(question) \ {Fail} :
             LET data == [answer EXCEPT !.calibration = args.calibration]
                 pdl == IF HasPeaks(data.intensities)
                        THEN DictSet(phase_diffraction_library, orientation,
                                     SimRecord(data, args.half_shape))
                        ELSE phase_diffraction_library
             IN  /\ heap' = [heap EXCEPT ![sid] = structure]
                 /\ simLog' = Append(simLog,
                        [key |-> key, index |-> oi + 1, orientation |-> orientation,
                         lattice |-> structure.lattice, answer |-> answer])
                 /\ memo' = IF det THEN DictSet(memo, question, answer) ELSE memo
                 /\ phase_diffraction_library' = pdl
                 /\ diffraction_library' =
                        IF HasPeaks(data.intensities)
                        THEN DictSet(diffraction_library, key, pdl)
                        ELSE diffraction_library
                 /\ oi' = oi + 1
                 /\ pc' = IF oi + 1 = Len(struct_lib[key].orientations)
                          THEN "phase" ELSE "orient"
    /\ UNCHANGED <<struct_lib, libAttrs, mapAttrs, args, ki, cell,
                   vector_library, sphere, ret, err, det, calls, first>>

\* the exception is caught and the loop goes on with the next orientation
SimulationFails_Swallowed ==
    /\ pc = "orient"
    /\ oi < Len(struct_lib[ki].orientations)
    /\ LET key == ki
           sid == struct_lib[key].structure
           orientation == struct_lib[key].orientations[oi + 1]
           structure == RotatedStructure(heap[sid], cell, orientation)
       IN  /\ heap' = [heap EXCEPT ![sid] = structure]
           /\ simLog' = Append(simLog,
                  [key |-> key, index |-> oi + 1, orientation |-> orientation,
                   lattice |-> structure.lattice, answer |-> Fail])
           /\ oi' = oi + 1
           /\ pc' = IF oi + 1 = Len(struct_lib[key].orientations)
                    THEN "phase" ELSE "orient"
    /\ UNCHANGED <<struct_lib, libAttrs, mapAttrs, args, ki, cell,
                   phase_diffraction_library, diffraction_library,
                   vector_library, sphere, ret, err, det, memo, calls, first>>

\* lines 99-113, calculate_ed_data raises: the exception leaves the method
SimulationFails ==
    /\ pc = "orient"
    /\ oi < Len(struct_lib[ki].orientations)
    /\ LET key == ki
           sid == struct_lib[key].structure
           orientation == struct_lib[key].orientations[oi + 1]
           structure == RotatedStructure(heap[sid], cell, orientation)
           question == [structure |-> structure,
                        reciprocal_radius |-> args.reciprocal_radius,
                        with_direct_beam |-> args.with_direct_beam]
       IN  /\ Fail \in Answers(question)
           /\ heap' = [heap EXCEPT ![sid] = structure]
           /\ simLog' = Append(simLog,
                  [key |-> key, index |-> oi + 1, orientation |-> orientation,
                   lattice |-> structure.lattice, answer |-> Fail])
           /\ memo' = IF det THEN DictSet(memo, question, Fail) ELSE memo
           /\ err' = Fail.raises
           /\ pc' = "raised"
    /\ UNCHANGED <<struct_lib, libAttrs, mapAttrs, args, ki, oi, cell,
                   phase_diffraction_library, diffraction_library,
                   vector_library, sphere, ret, det, calls, first>>

\* lines 129-133: the attributes are read from the rebound name
\* structure_library, which is input.struct_lib since line 88
PassAttributes ==
    /\ pc = "phase"
    /\ ki = NPhases
    /\ mapAttrs.present
    /\ ret' = [returned |-> TRUE, library |-> diffraction_library,
               identifiers |-> mapAttrs.identifiers,
               structures |-> mapAttrs.structures]
    /\ pc' = "done"
    /\ UNCHANGED <<struct_lib, libAttrs, mapAttrs, args, heap, ki, oi, cell,
                   phase_diffraction_library, diffraction_library,
                   vector_library, sphere, err, simLog, det, memo, calls,
                   first>>

\* line 130: input.struct_lib has no attribute `indentifiers'
AttributeMissing ==
    /\ pc = "phase"
    /\ ki = NPhases
    /\ ~mapAttrs.present
    /\ err' = "AttributeError"
    /\ pc' = "raised"
    /\ UNCHANGED <<struct_lib, libAttrs, mapAttrs, args, heap, ki, oi, cell,
                   phase_diffraction_library, diffraction_library,
                   vector_library, sphere, ret, simLog, det, memo, calls,
                   first>>

Next ==
    \/ NextPhase
    \/ Orientation
    \/ SimulationFails
    \/ PassAttributes
    \/ AttributeMissing

Spec == Init /\ [][Next]_vars

-----------------------------------------------------------------------------
(* get_diffraction_library called twice with a deterministic simulator *)

InitDet ==
    /\ InitInput
    /\ InitLocals
    /\ pc = "phase"
    /\ det = TRUE
    /\ calls = 1

\* lines 84-88 of the second call: same structure library object, same
\* arguments; the locals are fresh, the structures are as the first call
\* left them
SecondCall ==
    /\ pc = "done"
    /\ calls = 1
    /\ calls' = 2
    /\ first' = ret
    /\ ret' = NoReturn
    /\ diffraction_library' = EmptyDict
    /\ phase_diffraction_library' = EmptyDict
    /\ cell' = <<>>
    /\ ki' = 0
    /\ oi' = 0
    /\ pc' = "phase"
    /\ UNCHANGED <<struct_lib, libAttrs, mapAttrs, args, heap, vector_library,
                   sphere, err, simLog, det, memo>>

NextDet ==
    \/ NextPhase
    \/ Orientation
    \/ SimulationFails
    \/ PassAttributes
    \/ AttributeMissing
    \/ SecondCall

SpecDet == InitDet /\ [][NextDet]_vars

-----------------------------------------------------------------------------
(* get_vector_library *)

\* reciprocal lattice points in the order get_points_in_sphere lists them
\* (Miller indices; the coordinates are in units of the reciprocal cell edge)
LatticePoints == <<<<1, 0, 0>>, <<0, 2, 0>>, <<-1, 0, 0>>, <<0, 0, -2>>,
                   <<0, 3, 0>>, <<0, 0, 1>>>>

\* get_points_in_sphere(recip_latt, reciprocal_radius) when n points lie in
\* the sphere: indices, coordinates, distances, parallel sequences
PointsInSphere(n) ==
    [indices |-> SubSeq(LatticePoints, 1, n),
     coordinates |-> SubSeq(LatticePoints, 1, n),
     distances |-> [i \in 1..n |-> Sqrt(Dot(LatticePoints[i], LatticePoints[i]))]]

\* get_angle_cartesian(u, v) for parallel, orthogonal and opposite vectors:
\* 0, pi/2 and pi, as multiples piNum/piDen of pi
get_angle_cartesian(u, v) ==
    LET d == Dot(u, v)
        n == Sqrt(Dot(u, u)) * Sqrt(Dot(v, v))
    IN  IF d = 0 THEN [piNum |-> 1, piDen |-> 2]
        ELSE IF d = n THEN [piNum |-> 0, piDen |-> 1]
        ELSE [piNum |-> 1, piDen |-> 1]

\* the pairs of a pool taken with replacement
RECURSIVE combinations_with_replacement(_)
combinations_with_replacement(pool) ==
    IF Len(pool) < 1 THEN <<>>
    ELSE [t \in 1..Len(pool) |-> <<pool[1], pool[t]>>]
           \o combinations_with_replacement(Tail(pool))

\* itertools.combinations(pool, 2): the pairs of positions i < j of the
\* pool, in lexicographic order of the positions
RECURSIVE combinations(_)
combinations(pool) ==
    IF Len(pool) < 2 THEN <<>>
    ELSE [t \in 1..(Len(pool) - 1) |-> <<pool[1], pool[t + 1]>>]
           \o combinations(Tail(pool))

\* np.arange(n): 0, 1, ..., n - 1
arange(n) == [t \in 1..n |-> t - 1]

\* lines 184-197: the records of one phase (Python index i is position i + 1)
PhaseVectors(points) ==
    LET combs == combinations(arange(Len(points.indices)))
    IN  [t \in 1..Len(combs) |->
           LET i == combs[t][1]
               j == combs[t][2]
               hkl1 == points.indices[i + 1]
               hkl2 == points.indices[j + 1]
               len1 == points.distances[i + 1]
               len2 == points.distances[j + 1]
               angle == get_angle_cartesian(points.coordinates[i + 1],
                                            points.coordinates[j + 1])
           IN  <<hkl1, hkl2, len1, len2, angle>>]

\* structure libraries of the vector generator: the orientations are not read
InitVec ==
    /\ InitInput
    /\ \A k \in 1..Len(struct_lib) : Len(struct_lib[k].orientations) <= 1
    /\ InitLocals
    /\ pc = "vector_phase"
    /\ det = FALSE
    /\ calls = 1

\* lines 174-197: one phase of get_vector_library
VectorPhase ==
    /\ pc = "vector_phase"
    /\ ki < NPhases
    /\ \E n \in 0..MaxPoints :
         LET key == ki + 1
             points == PointsInSphere(n)
         IN  /\ sphere' = DictSet(sphere, key, points)
             /\ vector_library' = DictSet(vector_library, key, PhaseVectors(points))
             /\ ki' = key
    /\ UNCHANGED <<struct_lib, libAttrs, mapAttrs, args, heap, pc, oi, cell,
                   phase_diffraction_library, diffraction_library, ret, err,
                   simLog, det, memo, calls, first>>

\* lines 199-203: the attributes are read from self.structures.struct_lib
VectorPassAttributes ==
    /\ pc = "vector_phase"
    /\ ki = NPhases
    /\ mapAttrs.present
    /\ ret' = [returned |-> TRUE, library |-> vector_library,
               identifiers |-> mapAttrs.identifiers,
               structures |-> mapAttrs.structures]
    /\ pc' = "done"
    /\ UNCHANGED <<struct_lib, libAttrs, mapAttrs, args, heap, ki, oi, cell,
                   phase_diffraction_library, diffraction_library,
                   vector_library, sphere, err, simLog, det, memo, calls,
                   first>>

\* line 200: self.structures.struct_lib has no attribute `indentifiers'
VectorAttributeMissing ==
    /\ pc = "vector_phase"
    /\ ki = NPhases
    /\ ~mapAttrs.present
    /\ err' = "AttributeError"
    /\ pc' = "raised"
    /\ UNCHANGED <<struct_lib, libAttrs, mapAttrs, args, heap, ki, oi, cell,
                   phase_diffraction_library, diffraction_library,
                   vector_library, sphere, ret, simLog, det, memo, calls,
                   first>>

NextVec ==
    \/ VectorPhase
    \/ VectorPassAttributes
    \/ VectorAttributeMissing

SpecVec == InitVec /\ [][NextVec]_vars

-----------------------------------------------------------------------------
(* What the claims speak of *)

\* the mapping stored for phase p in a library, empty when p is no key
SubMapping(library, p) == IF p \in DOMAIN library THEN library[p] ELSE EmptyDict

\* the positions in simLog of the simulations of orientation o of phase p
Occurrences(p, o) ==
    {i \in 1..Len(simLog) : simLog[i].key = p /\ simLog[i].orientation = o}

\* the simulation at position i of simLog produced reflections
Reflecting(i) == simLog[i].answer # Fail /\ simLog[i].answer.intensities # <<>>

\* the record the code builds from the simulation at position i of simLog
RecordOf(i) ==
    SimRecord([simLog[i].answer EXCEPT !.calibration = args.calibration],
              args.half_shape)

OrientationsOf(p) == struct_lib[p].orientations

ListedOrientations(p) == {OrientationsOf(p)[i] : i \in 1..Len(OrientationsOf(p))}

\* number of orientations of p whose simulation produced zero reflections
ZeroReflection(p) ==
    Cardinality({i \in 1..Len(simLog) : simLog[i].key = p /\ ~Reflecting(i)})

Distinct(seq) == \A i, j \in 1..Len(seq) : i # j => seq[i] # seq[j]

SumOfSquares(v) ==
    LET RECURSIVE Upto(_)
        Upto(n) == IF n = 0 THEN 0 ELSE v[n] * v[n] + Upto(n - 1)
    IN  Upto(Len(v))

-----------------------------------------------------------------------------
(* C1 *)

\* C1 as stated: in the returned library no listed orientation whose
\* simulation returned an empty intensities vector is a key of its phase,
\* every stored record has intensities, and a phase none of whose
\* orientations produced a reflection is no key.
C1_AsStated ==
    pc = "done" =>
      /\ \A i \in 1..Len(simLog) :
           ~Reflecting(i) =>
             simLog[i].orientation \notin DOMAIN SubMapping(ret.library, simLog[i].key)
      /\ \A p \in DOMAIN ret.library : \A o \in DOMAIN ret.library[p] :
           ret.library[p][o].intensities # <<>>
      /\ \A p \in 1..NPhases :
           (\A i \in 1..Len(simLog) : simLog[i].key = p => ~Reflecting(i))
             => p \notin DOMAIN ret.library

\* C1 (amended): in the returned library an orientation triple is a key of
\* its phase only if at least one simulation of that triple returned a
\* non-empty intensities vector (a triple listed twice is kept when either
\* simulation has reflections); every stored record has a non-empty
\* intensities vector; a phase none of whose orientations produced a
\* reflection is no key of the library.
C1_EmptyDropped ==
    pc = "done" =>
      /\ \A p \in 1..NPhases : \A o \in ListedOrientations(p) :
           (\A i \in Occurrences(p, o) : ~Reflecting(i))
             => o \notin DOMAIN SubMapping(ret.library, p)
      /\ \A p \in DOMAIN ret.library : \A o \in DOMAIN ret.library[p] :
           ret.library[p][o].intensities # <<>>
      /\ \A p \in 1..NPhases :
           (\A i \in 1..Len(simLog) : simLog[i].key = p => ~Reflecting(i))
             => p \notin DOMAIN ret.library

\* a returned library with a phase that lost one of its orientations and a
\* phase with orientations that is no key
C1_Witness ==
    /\ pc = "done"
    /\ \E p \in DOMAIN ret.library : \E o \in ListedOrientations(p) :
         o \notin DOMAIN ret.library[p]
    /\ \E q \in 1..NPhases :
         q \notin DOMAIN ret.library /\ OrientationsOf(q) # <<>>

-----------------------------------------------------------------------------
(* C2 *)

\* the last simulation of orientation o of phase p
LastOccurrence(p, o) ==
    CHOOSE i \in Occurrences(p, o) : \A j \in Occurrences(p, o) : j <= i

\* the last simulation of orientation o of phase p that produced reflections
LastReflecting(p, o) ==
    LET R == {i \in Occurrences(p, o) : Reflecting(i)}
    IN  CHOOSE i \in R : \A j \in R : j <= i

\* C2 as stated: the record stored under an orientation listed more than
\* once is the one of the simulation of its last occurrence, whatever the
\* simulator.
C2_AsStated ==
    pc = "done" =>
      \A p \in DOMAIN ret.library : \A o \in DOMAIN ret.library[p] :
        Cardinality(Occurrences(p, o)) > 1 =>
          ret.library[p][o] = RecordOf(LastOccurrence(p, o))

\* C2 (amended): an orientation triple listed more than once is a key of
\* its phase exactly when one of its simulations returned a non-empty
\* intensities vector, and the record stored under it is the one of the last
\* occurrence whose simulation returned a non-empty intensities vector (an
\* empty last simulation leaves the earlier record in place).
C2_LastWriteWins ==
    pc = "done" =>
      \A p \in 1..NPhases : \A o \in ListedOrientations(p) :
        Cardinality(Occurrences(p, o)) > 1 =>
          IF \E i \in Occurrences(p, o) : Reflecting(i)
          THEN /\ o \in DOMAIN SubMapping(ret.library, p)
               /\ ret.library[p][o] = RecordOf(LastReflecting(p, o))
          ELSE o \notin DOMAIN SubMapping(ret.library, p)

\* an orientation simulated twice with two different non-empty results
C2_Witness ==
    /\ pc = "done"
    /\ \E p \in DOMAIN ret.library : \E o \in DOMAIN ret.library[p] :
         \E i, j \in Occurrences(p, o) :
           /\ i < j
           /\ Reflecting(i) /\ Reflecting(j)
           /\ simLog[i].answer # simLog[j].answer

-----------------------------------------------------------------------------
(* C3 *)

\* C3 as stated: at most P phase keys, and a phase's sub-mapping has O_p
\* minus the number of zero-reflection orientations entries.
C3_AsStated ==
    pc = "done" =>
      /\ Cardinality(DOMAIN ret.library) <= NPhases
      /\ \A p \in 1..NPhases :
           Cardinality(DOMAIN SubMapping(ret.library, p))
             = Len(OrientationsOf(p)) - ZeroReflection(p)

\* C3 (amended): the returned library has at most P phase keys, each a key
\* of the input; phase p's sub-mapping has at most O_p minus the number of
\* zero-reflection orientations entries, and exactly that many when the
\* orientation triples listed for p are pairwise different.
C3_Counts ==
    pc = "done" =>
      /\ Cardinality(DOMAIN ret.library) <= NPhases
      /\ DOMAIN ret.library \subseteq 1..NPhases
      /\ \A p \in 1..NPhases :
           LET n == Cardinality(DOMAIN SubMapping(ret.library, p))
               m == Len(OrientationsOf(p)) - ZeroReflection(p)
           IN  /\ n <= m
               /\ m <= Len(OrientationsOf(p))
               /\ Distinct(OrientationsOf(p)) => n = m

\* a phase with two different orientations, one of them without reflections,
\* beside a phase whose two orientations both have reflections
C3_Witness ==
    /\ pc = "done"
    /\ \E p \in DOMAIN ret.library :
         /\ Distinct(OrientationsOf(p))
         /\ Len(OrientationsOf(p)) = 2
         /\ ZeroReflection(p) = 1
         /\ Cardinality(DOMAIN ret.library[p]) = 1
    /\ \E q \in DOMAIN ret.library : ZeroReflection(q) = 0

-----------------------------------------------------------------------------
(* C6 *)

\* C6 as stated: the returned library's identifiers and structures are the
\* attributes of the structure library object that was passed in.
C6_AsStated ==
    pc = "done" =>
      /\ ret.identifiers = libAttrs.identifiers
      /\ ret.structures = libAttrs.structures

-----------------------------------------------------------------------------
(* C7 *)

\* C7 as stated: on a structure library with no phases the call returns a
\* library with zero phase keys, raises no error and never invokes the
\* simulator.
C7_AsStated ==
    (NPhases = 0 /\ pc # "phase") =>
      /\ pc = "done"
      /\ err = None
      /\ ret.returned
      /\ DOMAIN ret.library = {}
      /\ simLog = <<>>

-----------------------------------------------------------------------------
(* C8 *)

\* C8: a failure of the simulator is the last thing the call does: it
\* leaves the call as the simulator raised it, no simulation follows it and
\* nothing is returned, whatever had been accumulated.
C8_FailurePropagates ==
    \A i \in 1..Len(simLog) :
      simLog[i].answer = Fail =>
        /\ i = Len(simLog)
        /\ pc = "raised"
        /\ err = Fail.raises
        /\ ret = NoReturn

\* the simulator failed in the second phase, with records of the first
\* phase and of an earlier orientation accumulated
C8_Witness ==
    /\ pc = "raised"
    /\ err = Fail.raises
    /\ ki = 2
    /\ 1 \in DOMAIN diffraction_library
    /\ phase_diffraction_library # EmptyDict
    /\ ret = NoReturn

-----------------------------------------------------------------------------
(* C9 *)

\* C9 as stated: every retained record with non-negative intensities has
\* pattern_norm squared equal to the sum of squares of its intensities and
\* pattern_norm strictly greater than 0.
C9_AsStated ==
    pc = "done" =>
      \A p \in DOMAIN ret.library : \A o \in DOMAIN ret.library[p] :
        LET r == ret.library[p][o]
        IN  (\A i \in 1..Len(r.intensities) : r.intensities[i] >= 0) =>
              /\ r.pattern_norm * r.pattern_norm = SumOfSquares(r.intensities)
              /\ r.pattern_norm > 0

\* C9 (amended): every retained record has a non-empty intensities vector,
\* pattern_norm squared equal to the sum of squares of its intensities and
\* pattern_norm >= 0; pattern_norm is 0 exactly when every stored intensity
\* is 0 (records are filtered by an empty vector, not by zero intensity).
C9_PatternNorm ==
    pc = "done" =>
      \A p \in DOMAIN ret.library : \A o \in DOMAIN ret.library[p] :
        LET r == ret.library[p][o]
        IN  /\ r.intensities # <<>>
            /\ r.pattern_norm * r.pattern_norm = SumOfSquares(r.intensities)
            /\ r.pattern_norm >= 0
            /\ r.pattern_norm = 0
                 <=> \A i \in 1..Len(r.intensities) : r.intensities[i] = 0

\* a returned library with a record of norm 0 and a record of norm 5
C9_Witness ==
    /\ pc = "done"
    /\ \E p \in DOMAIN ret.library : \E o1, o2 \in DOMAIN ret.library[p] :
         /\ ret.library[p][o1].pattern_norm = 0
         /\ ret.library[p][o2].intensities = <<3, 4>>
         /\ ret.library[p][o2].pattern_norm = 5

-----------------------------------------------------------------------------
(* C10 *)

\* the (phase key, list index) pairs of the structure library in key order
\* and list order
RECURSIVE EntriesFrom(_)
EntriesFrom(p) ==
    IF p > NPhases THEN <<>>
    ELSE [i \in 1..Len(OrientationsOf(p)) |-> [key |-> p, index |-> i]]
           \o EntriesFrom(p + 1)

\* the lattice of the cell of structure s turned by orientation o alone
TurnedLattice(s, o) ==
    [cell |-> CellOf(s),
     baserot |-> euler2mat(deg2rad(o)[1], deg2rad(o)[2], deg2rad(o)[3])]

\* C10: the simulator is invoked once per listed orientation, phases in key
\* order and orientations in list order (a failure ends the sequence); at
\* each invocation the structure carries the lattice of the cell parameters
\* it had at the start and of the rotation of the current orientation only;
\* on return each structure is left in the lattice of the last orientation
\* of its phase.
C10_OncePerOrientation ==
    LET entries == EntriesFrom(1)
    IN  /\ Len(simLog) <= Len(entries)
        /\ \A i \in 1..Len(simLog) :
             /\ simLog[i].key = entries[i].key
             /\ simLog[i].index = entries[i].index
             /\ simLog[i].orientation = OrientationsOf(simLog[i].key)[simLog[i].index]
             /\ simLog[i].lattice =
                  TurnedLattice(struct_lib[simLog[i].key].structure,
                                simLog[i].orientation)
        /\ pc = "done" =>
             /\ Len(simLog) = Len(entries)
             /\ \A p \in 1..NPhases :
                  LET s == struct_lib[p].structure
                      n == Len(OrientationsOf(p))
                  IN  heap[s].lattice =
                        IF n = 0
                        THEN [cell |-> CellOf(s), baserot |-> IdentityRot]
                        ELSE TurnedLattice(s, OrientationsOf(p)[n])

\* a return after two phases, one of them with two orientations of
\* different rotations, the structure left in the second one
C10_Witness ==
    /\ pc = "done"
    /\ NPhases = 2
    /\ Len(simLog) = 3
    /\ \E p \in 1..NPhases :
         /\ Len(OrientationsOf(p)) = 2
         /\ TurnedLattice(p, OrientationsOf(p)[1]) # TurnedLattice(p, OrientationsOf(p)[2])
         /\ heap[struct_lib[p].structure].lattice.baserot # IdentityRot

-----------------------------------------------------------------------------
(* C4 *)

\* the place of the pair (i, j), i < j, among the pairs of 0..n-1 in
\* lexicographic order, counted from 1
PairPlace(i, j, n) == i * (n - 1) - ((i * (i - 1)) \div 2) + (j - i)

\* C4: when get_points_in_sphere returned n points for a phase, the phase's
\* array has n*(n-1)/2 records, the record of the pair (i, j), i < j, at the
\* pair's place in lexicographic order, made of indices[i], indices[j],
\* distances[i], distances[j] and the angle of coordinates[i] and
\* coordinates[j]; with n < 2 the array is empty.
C4_AllPairs ==
    \A key \in DOMAIN vector_library :
      LET points == sphere[key]
          n == Len(points.indices)
          records == vector_library[key]
      IN  /\ Len(records) = (n * (n - 1)) \div 2
          /\ n < 2 => records = <<>>
          /\ \A i, j \in 0..(n - 1) :
               i < j =>
                 records[PairPlace(i, j, n)] =
                   <<points.indices[i + 1], points.indices[j + 1],
                     points.distances[i + 1], points.distances[j + 1],
                     get_angle_cartesian(points.coordinates[i + 1],
                                         points.coordinates[j + 1])>>

\* a returned vector library with a phase of four points (six records) and a
\* phase of one point (no record)
C4_Witness ==
    /\ pc = "done"
    /\ \E p, q \in DOMAIN ret.library :
         /\ Len(sphere[p].indices) = 4
         /\ Len(ret.library[p]) = 6
         /\ Len(sphere[q].indices) = 1
         /\ ret.library[q] = <<>>

-----------------------------------------------------------------------------
(* C5 *)

\* what two libraries are compared by: the pixel coordinates and the norm of
\* each record, under the same phase and orientation keys
Observed(library) ==
    [p \in DOMAIN library |->
       [o \in DOMAIN library[p] |->
          [pixel_coords |-> library[p][o].pixel_coords,
           pattern_norm |-> library[p][o].pattern_norm]]]

\* C5: two successive calls with the same structure library object and
\* arguments and a deterministic simulator return libraries with the same
\* phase keys, orientation keys, pixel coordinates and pattern norms,
\* although the first call left the structures rotated.
C5_Idempotent ==
    (pc = "done" /\ calls = 2) =>
      /\ DOMAIN ret.library = DOMAIN first.library
      /\ \A p \in DOMAIN ret.library :
           DOMAIN ret.library[p] = DOMAIN first.library[p]
      /\ Observed(ret.library) = Observed(first.library)

\* the second call returned two records although it started from a rotated
\* structure
C5_Witness ==
    /\ pc = "done"
    /\ calls = 2
    /\ \E p \in DOMAIN ret.library :
         /\ Cardinality(DOMAIN ret.library[p]) = 2
         /\ OrientationsOf(p)[1] = <<10, 0, 0>>
         /\ heap[struct_lib[p].structure].lattice.baserot # IdentityRot

=============================================================================
